---- MODULE Spec2Model ----
(***************************************************************************)
(* The fetch-event dispatch engine of packages/core/src/standards/event.ts *)
(* (FetchEvent, ServiceWorkerGlobalScope) as a state machine.              *)
(*                                                                         *)
(* One "run" is one ServiceWorkerGlobalScope with one dispatchFetch call   *)
(* on it.  The state of a run is split over five variables, each a         *)
(* function from the run to a record:                                      *)
(*   event  the FetchEvent's fields (kResponse, kPassThrough, ...)         *)
(*   scope  the ServiceWorkerGlobalScope's fields (listeners, ...)         *)
(*   call   the activation of [kDispatchFetch] (its position, its locals)  *)
(*   env    the collaborators: logger, forwarder, the promises' states     *)
(*   hist   history of what listeners did (read by the properties only)    *)
(* Run 1 is the program.  Run 2 is a second copy that takes the same steps *)
(* as run 1 except for calls of passThroughOnException; it is switched on  *)
(* only by SpecPT, which compares the two.  `active` is the set of runs    *)
(* switched on and `limit` the bounds of the exploration; neither changes. *)
(*                                                                         *)
(* `kv` is a KVNamespace with its storage and its clock (KVNamespace.put   *)
(* of the key-value store); the dispatch engine does not touch it.         *)
(***************************************************************************)
EXTENDS Integers, Sequences, FiniteSets

VARIABLES event, scope, call, env, hist, active, limit, kv

vars == <<event, scope, call, env, hist, active, limit, kv>>

Runs == {1, 2}

\* ------------------------------------------------------------------ bounds
\* Listeners a script may register (L1..Ln).
MaxListeners == 3
\* Promises handed to waitUntil on one event.
MaxTasks == 2
\* The same bounds for the specification that compares two runs.
TwinListeners == 2
TwinTasks == 1
\* The same bounds for the specifications in which the promises handed to
\* waitUntil settle.
FewListeners == 1
FewTasks == 2
\* The same bounds for the specification with fairness.
FairListeners == 1
FairTasks == 1
\* The same bounds for a scope in modules mode, and the exported fetch
\* handlers it is given.
ModListeners == 2
ModTasks == 1
ModHandlers == 2
\* The same bounds for a dispatchScheduled.
CronListeners == 3
CronTasks == 2
\* The same bounds for the dispatchScheduled calls that differ in their
\* arguments.
ArgListeners == 1
ArgTasks == 1
\* The same bounds for a dispatch whose listeners dispatch events themselves.
NestListeners == 2
NestTasks == 1
\* Listeners and tasks of the dispatches whose tasks are aggregated.
AggListeners == 1
AggTasks == 2
\* Listeners of a scope given two dispatchFetch calls at once, and the calls
\* of respondWith, waitUntil and passThroughOnException that take effect on
\* the two events together.
OverlapListeners == 1
OverlapCalls == 3
\* Exported handlers of each type, and the waitUntil calls they make.
AdapterHandlers == 2
AdapterTasks == 1
\* Keys of the namespace that put is called with.
KVKeys == 1
\* The listeners a script adds and removes in any order.
RegListeners == 2
Listeners ==
  1..(MaxListeners + TwinListeners + FewListeners + FairListeners + ModListeners
       + CronListeners + ArgListeners + NestListeners
       + RegListeners + AggListeners + OverlapListeners
       + AdapterHandlers)
Tasks == 1..(MaxTasks + TwinTasks + FewTasks + FairTasks + ModTasks
              + CronTasks + ArgTasks + NestTasks)

\* ------------------------------------------------------------------ values
\* JavaScript's undefined.
Undefined == "undefined"
\* Response objects a listener may pass to respondWith.
Responses == {"ResponseA", "ResponseB"}
\* A promise a listener may pass to respondWith; it settles later.
PendingResponse == "promiseR"
\* What that promise fulfils with, and what it rejects with.
LateResponse == "ResponseR"
LateRejection == "ErrorR"
\* Everything respondWith is called with: a Response, undefined (an untyped
\* script, or a module handler that returns nothing), or a promise.
RespondArgs == Responses \cup {Undefined, PendingResponse}
\* Error objects a listener may throw.
Errors == {"ErrorE1", "ErrorE2"}
\* Everything a listener may throw: an Error, or the value undefined.
ThrowArgs == Errors \cup {Undefined}
\* The forwarder's (undici fetch) response, and its failure.
ProxyResponse == "ResponseUpstream"
ProxyError == "ErrorUpstream"
\* The inbound request: its header names.
Requests == {[headers |-> {"host", "accept"}]}
NoRequest == [headers |-> {}]
NoThrow == "none"
\* An optional argument: given with a value, or omitted.
Omitted(default) == [given |-> FALSE, value |-> default]
Given(value) == [given |-> TRUE, value |-> value]
\* What dispatchScheduled is called with, and what Date.now() returns.
ScheduledTimes == {Omitted(0), Given(0), Given(1000)}
Crons == {Omitted(""), Given(""), Given("* * * * *")}
Clock == {2000, 3000}
\* The event types of WorkerGlobalScopeEventMap.
\* What an exported scheduled handler returns: a plain value, or a promise.
ScheduledReturns == {"value", "promise"}
Types == {"fetch", "scheduled"}
\* A wrappedListener made by #wrap: its identity and the listener it calls.
\* NoShim is a miss in the #wrappedListeners map.
NoShim == [id |-> 0, kind |-> "none", of |-> 0]
\* The TypeError of the global listener API in modules mode.
ModulesTypeError == "TypeError: cannot be used in modules"

\* event.ts:30-33 and 36-39: the two DOMExceptions of respondWith, both named
\* InvalidStateError.
AlreadyCalled == "InvalidStateError: respondWith() has already been called"
TooLate == "InvalidStateError: too late to call respondWith()"
InvalidStateError == {AlreadyCalled, TooLate}
\* event.ts:266-269.
UnhandledRequest == "TypeError: no fetch handler responded and no upstream"

\* event[kResponse]: unset, or Promise.resolve(response).
NoResponse == [set |-> FALSE, of |-> Undefined]
PromiseResolve(response) == [set |-> TRUE, of |-> response]

\* const MIN_CACHE_TTL = 60
MIN_CACHE_TTL == 60

\* An option of put: left out, a number, or the decimal text of a number.
NotGiven == [type |-> "undefined", n |-> 0]
Number(n) == [type |-> "number", n |-> n]
String(n) == [type |-> "string", n |-> n]

\* What this.#clock() returns, in milliseconds.
KVClock == {100000, 100999, 161000}
\* options.expiration, in seconds since the epoch.
Expirations ==
  {NotGiven, Number(-1), Number(0), String(0), Number(100), Number(159),
   Number(160)}
\* options.expirationTtl, in seconds.
ExpirationTtls ==
  {NotGiven, Number(0), Number(59), Number(60), String(60)}
\* The value given to put fits MAX_VALUE_SIZE, or does not.
ValueSizes == {"fits", "tooLarge"}

\* What put throws.
KVPut400 == "KV PUT failed: 400"
KVPut413 == "KV PUT failed: 413"

\* No entry under a key, and no integer.
NoInt == [defined |-> FALSE, n |-> 0]
NoEntry == [stored |-> FALSE, expiration |-> NoInt, at |-> 0]

\* new KVNamespace(storage, clock) on an empty storage.  `last` is history:
\* the options of the last put and what it did.
NewKVNamespace ==
  [storage |-> [key \in 1..KVKeys |-> NoEntry],
   clock |-> 100000,
   last |-> [key |-> 0, expiration |-> NotGiven, expirationTtl |-> NotGiven,
             size |-> "fits", now |-> 0, result |-> "none", wrote |-> FALSE]]

\* ---------------------------------------------------------------- FetchEvent
\* new FetchEvent(request)
NewFetchEvent(request) ==
  [type |-> "fetch",
   request |-> request,
   kResponse |-> NoResponse,
   kPassThrough |-> FALSE,
   kWaitUntil |-> <<>>,
   kSent |-> FALSE,
   stopImmediate |-> FALSE]

\* respondWith without its first check: a later call replaces the response.
respondWith_overwrites(e, response) ==
  IF e.kSent THEN [event |-> e, threw |-> TooLate]
  ELSE [event |-> [e EXCEPT !.stopImmediate = TRUE,
                            !.kResponse = PromiseResolve(response)],
        threw |-> NoThrow]

\* respondWith whose repeated call returns without throwing.
respondWith_repeatIsSilent(e, response) ==
  IF e.kResponse.set THEN [event |-> e, threw |-> NoThrow]
  ELSE IF e.kSent THEN [event |-> e, threw |-> TooLate]
  ELSE [event |-> [e EXCEPT !.stopImmediate = TRUE,
                            !.kResponse = PromiseResolve(response)],
        threw |-> NoThrow]

\* respondWith without stopImmediatePropagation().
respondWith_keepsPropagating(e, response) ==
  IF e.kResponse.set THEN [event |-> e, threw |-> AlreadyCalled]
  ELSE IF e.kSent THEN [event |-> e, threw |-> TooLate]
  ELSE [event |-> [e EXCEPT !.kResponse = PromiseResolve(response)],
        threw |-> NoThrow]

\* respondWith without its second check: a late call is accepted.
respondWith_ignoresSent(e, response) ==
  IF e.kResponse.set THEN [event |-> e, threw |-> AlreadyCalled]
  ELSE [event |-> [e EXCEPT !.stopImmediate = TRUE,
                            !.kResponse = PromiseResolve(response)],
        threw |-> NoThrow]

\* FetchEvent.respondWith: the event after the call, and what the call threw.
respondWith(e, response) ==
  IF e.kResponse.set THEN [event |-> e, threw |-> AlreadyCalled]
  ELSE IF e.kSent THEN [event |-> e, threw |-> TooLate]
  ELSE [event |-> [e EXCEPT !.stopImmediate = TRUE,
                            !.kResponse = PromiseResolve(response)],
        threw |-> NoThrow]

\* passThroughOnException that also stops the propagation of the event.
passThroughOnException_alsoStops(e) ==
  [e EXCEPT !.kPassThrough = TRUE, !.stopImmediate = TRUE]

\* FetchEvent.passThroughOnException
passThroughOnException(e) == [e EXCEPT !.kPassThrough = TRUE]

\* waitUntil that drops the promise once a response is stored.
waitUntil_dropsAfterResponse(e, promise) ==
  IF e.kResponse.set THEN e ELSE [e EXCEPT !.kWaitUntil = Append(@, promise)]

\* FetchEvent.waitUntil
waitUntil(e, promise) == [e EXCEPT !.kWaitUntil = Append(@, promise)]

\* new ScheduledEvent(scheduledTime, cron)
NewScheduledEvent(scheduledTime, cron) ==
  [type |-> "scheduled",
   scheduledTime |-> scheduledTime,
   cron |-> cron,
   kWaitUntil |-> <<>>,
   stopImmediate |-> FALSE]

\* ScheduledEvent.waitUntil
scheduledWaitUntil(e, promise) == [e EXCEPT !.kWaitUntil = Append(@, promise)]

\* Event.stopImmediatePropagation, which both event classes inherit.
stopImmediatePropagation(e) == [e EXCEPT !.stopImmediate = TRUE]

\* `a ?? b` that takes the default whatever was given.
Nullish_ignoresArgument(arg, default) == default

\* `a ?? b` on an optional argument.
Nullish(arg, default) == IF arg.given THEN arg.value ELSE default

\* ------------------------------------------------------------------ a run
\* The state of run r as one record.
World(r) ==
  [event |-> event[r], scope |-> scope[r], call |-> call[r],
   env |-> env[r], hist |-> hist[r]]

Pending == [kind |-> "pending", value |-> Undefined, waitUntil |-> <<>>]
\* withWaitUntil(response, waitUntil): a response with its background future.
withWaitUntil(response, promises) ==
  [kind |-> "resolved", value |-> response, waitUntil |-> promises]
Rejected(error) == [kind |-> "rejected", value |-> error, waitUntil |-> <<>>]

\* The state after `new ServiceWorkerGlobalScope(log, globals, bindings)`:
\* imperative mode, nothing registered, nothing dispatched.
NewWorld ==
  [event |-> NewFetchEvent(NoRequest),
   scope |-> [listeners |-> [type \in Types |-> <<>>],
              wrappedListeners |-> [listener \in Listeners |-> NoShim],
              wrapped |-> 0,
              wrappedError |-> Undefined,
              modules |-> FALSE],
   call |-> [pc |-> "idle", request |-> NoRequest, proxy |-> FALSE, cur |-> 0,
             awaited |-> NoResponse, waitUntil |-> <<>>, outcome |-> Pending],
   env |-> [log |-> <<>>, fetched |-> <<>>, fetchP |-> "none",
            respP |-> "pending",
            tasks |-> [t \in Tasks |-> "pending"]],
   hist |-> [invoked |-> <<>>, thrown |-> <<>>, accepted |-> <<>>,
             last |-> [threw |-> NoThrow, sent |-> FALSE],
             made |-> <<>>,
             handled |-> <<>>,
             api |-> [op |-> "none", threw |-> NoThrow],
             args |-> [scheduledTime |-> Omitted(0), cron |-> Omitted(""),
                       now |-> 0],
             stopped |-> 0,
             thrownAt |-> 0,
             lastOp |-> [type \in Types |-> [listener \in Listeners |-> "none"]],
             registered |-> [type \in Types |-> <<>>]]]

\* An aggregate that settles only once every promise has settled.
PromiseAll_waitsForAll(promises, tasks) ==
  IF \E i \in 1..Len(promises) : tasks[promises[i]] = "pending"
    THEN [state |-> "pending", results |-> <<>>]
  ELSE IF \E i \in 1..Len(promises) : tasks[promises[i]] = "rejected"
    THEN [state |-> "rejected", results |-> <<>>]
  ELSE [state |-> "fulfilled",
        results |-> [i \in 1..Len(promises) |-> <<"result", promises[i]>>]]

\* Promise.all(promises): pending, fulfilled with the results in the order of
\* `promises`, or rejected once one of them is rejected.  A task's result is
\* its own identity, so the order of the results can be read.
PromiseAll(promises, tasks) ==
  IF \E i \in 1..Len(promises) : tasks[promises[i]] = "rejected"
    THEN [state |-> "rejected", results |-> <<>>]
  ELSE IF \A i \in 1..Len(promises) : tasks[promises[i]] = "fulfilled"
    THEN [state |-> "fulfilled",
          results |-> [i \in 1..Len(promises) |-> <<"result", promises[i]>>]]
  ELSE [state |-> "pending", results |-> <<>>]

\* ------------------------------------------------------- [kDispatchFetch]
\* A finally clause that does nothing.
finallyClause_skipped(w) == w

\* finally { event[kSent] = true }
finallyClause(w) == [w EXCEPT !.event.kSent = TRUE]

\* The code after the try statement without request.headers.delete("host").
afterTry_keepsHost(w) ==
  IF ~w.call.proxy
    THEN [w EXCEPT !.call.pc = "done",
                   !.call.outcome = Rejected(UnhandledRequest)]
    ELSE [w EXCEPT !.call.waitUntil = w.event.kWaitUntil,
                   !.env.fetched = Append(@, w.call.request),
                   !.env.fetchP = "pending",
                   !.call.pc = "await_fetch"]

\* event.ts:264-275, the code after the try statement: no fallback, or
\* strip the host header and forward the original request.
afterTry(w) ==
  IF ~w.call.proxy
    THEN [w EXCEPT !.call.pc = "done",
                   !.call.outcome = Rejected(UnhandledRequest)]
    ELSE LET request == [w.call.request EXCEPT !.headers = @ \ {"host"}] IN
         [w EXCEPT !.call.request = request,
                   !.call.waitUntil = w.event.kWaitUntil,
                   !.env.fetched = Append(@, request),
                   !.env.fetchP = "pending",
                   !.call.pc = "await_fetch"]

\* The catch clause with the test of event[kPassThrough] dropped: every error
\* is logged and recovered.
catchClause_alwaysRecovers(w, e) ==
  afterTry(finallyClause([w EXCEPT !.env.log = Append(@, e)]))

\* The catch clause with the test of event[kPassThrough] dropped: every error
\* is rethrown.
catchClause_alwaysRethrows(w, e) ==
  finallyClause([w EXCEPT !.call.pc = "done", !.call.outcome = Rejected(e)])

\* catch (e) { if (event[kPassThrough]) log.warn(e.stack) else throw e }
\* with the finally clause and what follows it.
catchClause(w, e) ==
  IF w.event.kPassThrough
    THEN afterTry(finallyClause([w EXCEPT !.env.log = Append(@, e)]))
    ELSE finallyClause([w EXCEPT !.call.pc = "done",
                                 !.call.outcome = Rejected(e)])

\* What [kDispatchScheduled] settles with from Promise.all: the results, or
\* a rejection.
TaskOutcome(all) ==
  [kind |-> IF all.state = "fulfilled" THEN "resolved" ELSE "rejected",
   results |-> all.results]

\* [kDispatchScheduled] after #dispatchEvent (event.ts:283-284): the error
\* #dispatchEvent throws rejects the call, else Promise.all takes the promises
\* queued so far and the call awaits it.
scheduledContinues(w) ==
  IF w.scope.wrappedError # Undefined
    THEN [w EXCEPT !.call.pc = "done",
                   !.call.cur = 0,
                   !.call.outcome = Rejected(w.scope.wrappedError)]
    ELSE [w EXCEPT !.call.pc = "await_tasks",
                   !.call.cur = 0,
                   !.call.waitUntil = w.event.kWaitUntil]

\* The await of event.ts:284 can resume.
tasksReady(w) ==
  /\ w.call.pc = "await_tasks"
  /\ PromiseAll(w.call.waitUntil, w.env.tasks).state # "pending"

\* The results handed back last first.
tasksResume_reversed(w) ==
  LET all == PromiseAll(w.call.waitUntil, w.env.tasks)
      n == Len(all.results) IN
  [w EXCEPT !.call.pc = "done",
            !.call.outcome =
               TaskOutcome([all EXCEPT !.results =
                                   [i \in 1..n |-> all.results[n + 1 - i]]])]

\* return await Promise.all(event[kWaitUntil])
tasksResume(w) ==
  [w EXCEPT !.call.pc = "done",
            !.call.outcome =
               TaskOutcome(PromiseAll(w.call.waitUntil, w.env.tasks))]

\* #dispatchEvent after super.dispatchEvent returned (event.ts:203), and
\* [kDispatchFetch] up to its first await (event.ts:245-248).
dispatchEventReturns(w) ==
  IF w.event.type = "scheduled" THEN scheduledContinues(w)
  ELSE IF w.scope.wrappedError # Undefined
    THEN catchClause(w, w.scope.wrappedError)
    ELSE [w EXCEPT !.call.pc = "await_response",
                   !.call.cur = 0,
                   !.call.awaited = w.event.kResponse]

\* EventTarget's loop giving up after any listener.
afterListener_endsFanOut(w) ==
  dispatchEventReturns([w EXCEPT !.call.cur = 0])

\* EventTarget's loop after one listener has run: stop on
\* stopImmediatePropagation or at the end of the list, else the next one.
afterListener(w) ==
  IF w.event.stopImmediate \/ w.call.cur = Len(w.scope.listeners[w.event.type])
    THEN dispatchEventReturns([w EXCEPT !.call.cur = 0])
    ELSE [w EXCEPT !.call.cur = @ + 1,
                   !.hist.invoked =
                      Append(@, w.scope.listeners[w.event.type][w.call.cur + 1])]

\* The catch clause of #wrap's wrappedListener (event.ts:153-156).
wrappedListenerCatches(w, error) ==
  afterListener([w EXCEPT !.event.stopImmediate = TRUE,
                          !.scope.wrappedError = error,
                          !.hist.thrownAt = w.call.cur,
                          !.hist.thrown =
                             Append(@, [value |-> error,
                                        passThrough |->
                                          /\ w.event.type = "fetch"
                                          /\ w.event.kPassThrough])])

\* #dispatchEvent(event) up to the call of the first listener: the slot is
\* cleared and EventTarget starts on the list of the event's type.
privateDispatchEvent(w) ==
  LET w1 == [w EXCEPT !.scope.wrappedError = Undefined] IN
  IF w.scope.listeners[w.event.type] = <<>>
    THEN dispatchEventReturns(w1)
    ELSE [w1 EXCEPT !.call.pc = "listener",
                    !.call.cur = 1,
                    !.hist.invoked = <<w.scope.listeners[w.event.type][1]>>]

\* async [kDispatchFetch](request, proxy) up to the call of the first listener.
kDispatchFetch(w, request, proxy) ==
  privateDispatchEvent([w EXCEPT !.event = NewFetchEvent(request),
                                 !.call.request = request,
                                 !.call.proxy = proxy])

\* async [kDispatchScheduled](scheduledTime, cron) up to the call of the
\* first listener; `now` is what Date.now() returns.
kDispatchScheduled(w, scheduledTime, cron, now) ==
  privateDispatchEvent(
    [w EXCEPT !.event = NewScheduledEvent(Nullish(scheduledTime, now),
                                          Nullish(cron, "")),
              !.hist.args = [scheduledTime |-> scheduledTime, cron |-> cron,
                             now |-> now]])

\* What `await event[kResponse]` yields, once it yields.
Awaited(w) ==
  IF ~w.call.awaited.set THEN [state |-> "fulfilled", value |-> Undefined]
  ELSE IF w.call.awaited.of # PendingResponse
    THEN [state |-> "fulfilled", value |-> w.call.awaited.of]
  ELSE IF w.env.respP = "fulfilled"
    THEN [state |-> "fulfilled", value |-> LateResponse]
  ELSE IF w.env.respP = "rejected"
    THEN [state |-> "rejected", value |-> LateRejection]
  ELSE [state |-> "pending", value |-> Undefined]

\* The await resuming only once every promise passed to waitUntil has settled.
responseReady_waitsForTasks(w) ==
  /\ w.call.pc = "await_response"
  /\ Awaited(w).state # "pending"
  /\ \A i \in 1..Len(w.event.kWaitUntil) :
        w.env.tasks[w.event.kWaitUntil[i]] # "pending"

\* The await of event.ts:248 can resume.
responseReady(w) ==
  w.call.pc = "await_response" /\ Awaited(w).state # "pending"

\* event.ts:248-262 from the resumption of the await.
responseResumes(w) ==
  LET got == Awaited(w) IN
  IF got.state = "rejected" THEN catchClause(w, got.value)
  ELSE IF got.value # Undefined
    THEN finallyClause(
           [w EXCEPT !.call.pc = "done",
                     !.call.waitUntil = w.event.kWaitUntil,
                     !.call.outcome = withWaitUntil(got.value, w.event.kWaitUntil)])
  ELSE afterTry(finallyClause(w))

\* return withWaitUntil(await fetch(request), waitUntil)
fetchResumes(w) ==
  IF w.env.fetchP = "fulfilled"
    THEN [w EXCEPT !.call.pc = "done",
                   !.call.outcome = withWaitUntil(ProxyResponse, w.call.waitUntil)]
    ELSE [w EXCEPT !.call.pc = "done",
                   !.call.outcome = Rejected(ProxyError)]

\* ------------------------------------------------------------ the registry
\* #wrap without the look-up in #wrappedListeners: a new shim at every call.
wrap_notMemoized(sc, listener) ==
  LET shim == [id |-> sc.wrapped + 1, kind |-> "listener", of |-> listener] IN
  [scope |-> [sc EXCEPT !.wrapped = @ + 1,
                        !.wrappedListeners[listener] = shim],
   shim |-> shim]

\* #wrap(listener): the shim made for this listener before, or a new one,
\* remembered in #wrappedListeners.
wrap(sc, listener) ==
  IF sc.wrappedListeners[listener] # NoShim
    THEN [scope |-> sc, shim |-> sc.wrappedListeners[listener]]
    ELSE LET shim == [id |-> sc.wrapped + 1, kind |-> "listener",
                      of |-> listener] IN
         [scope |-> [sc EXCEPT !.wrapped = @ + 1,
                               !.wrappedListeners[listener] = shim],
          shim |-> shim]

\* EventTarget.addEventListener: a callback the list of the type already
\* holds is ignored, another one is appended.
superAddEventListener(sc, type, shim) ==
  IF \E i \in 1..Len(sc.listeners[type]) : sc.listeners[type][i] = shim
    THEN sc
    ELSE [sc EXCEPT !.listeners[type] = Append(@, shim)]

\* EventTarget.removeEventListener: the callback leaves the list of the type.
superRemoveEventListener(sc, type, shim) ==
  [sc EXCEPT !.listeners[type] = SelectSeq(@, LAMBDA held : held # shim)]

\* #addEventListener(type, listener)
privateAddEventListener(sc, type, listener) ==
  LET wrapped == wrap(sc, listener) IN
  superAddEventListener(wrapped.scope, type, wrapped.shim)

\* addEventListener without the test of #modules.
addEventListener_ignoresMode(w, type, listener) ==
  [w EXCEPT !.scope = privateAddEventListener(w.scope, type, listener),
            !.hist.api = [op |-> "addEventListener", threw |-> NoThrow],
            !.hist.lastOp[type][listener] = "add",
            !.hist.registered[type] =
               IF w.hist.lastOp[type][listener] = "add"
                 THEN @ ELSE Append(@, listener)]

\* addEventListener(type, listener).  History keeps what the call threw, the
\* last operation on the listener, and the listeners in the order a list
\* without duplicates would hold them.
addEventListener(w, type, listener) ==
  IF w.scope.modules
    THEN [w EXCEPT !.hist.api = [op |-> "addEventListener",
                                 threw |-> ModulesTypeError]]
    ELSE [w EXCEPT !.scope = privateAddEventListener(w.scope, type, listener),
                   !.hist.api = [op |-> "addEventListener", threw |-> NoThrow],
                   !.hist.lastOp[type][listener] = "add",
                   !.hist.registered[type] =
                      IF w.hist.lastOp[type][listener] = "add"
                        THEN @ ELSE Append(@, listener)]

\* removeEventListener(type, listener)
removeEventListener(w, type, listener) ==
  IF w.scope.modules
    THEN [w EXCEPT !.hist.api = [op |-> "removeEventListener",
                                 threw |-> ModulesTypeError]]
    ELSE LET wrapped == wrap(w.scope, listener) IN
         [w EXCEPT !.scope = superRemoveEventListener(wrapped.scope, type,
                                                      wrapped.shim),
                   !.hist.api = [op |-> "removeEventListener",
                                 threw |-> NoThrow],
                   !.hist.lastOp[type][listener] = "remove",
                   !.hist.registered[type] =
                      SelectSeq(@, LAMBDA held : held # listener)]

\* dispatchEvent(event) called by a script, for an event of a type other than
\* the one being dispatched.  The fan-out of that event is summarised by
\* `inner`: what the first of its listeners to throw threw, NoThrow when none
\* did.  The call returns, or throws what #dispatchEvent throws.
dispatchEvent(w, inner) ==
  IF w.scope.modules
    THEN [w EXCEPT !.hist.api = [op |-> "dispatchEvent",
                                 threw |-> ModulesTypeError]]
    ELSE [w EXCEPT !.scope.wrappedError =
                      IF inner = NoThrow THEN Undefined ELSE inner,
                   !.hist.api = [op |-> "dispatchEvent",
                                 threw |-> IF inner = Undefined
                                             THEN NoThrow ELSE inner]]

\* [kAddModuleFetchListener](listener): the closure made here is a new
\* function at every call, so #wrap makes a new shim for it.
kAddModuleFetchListener(w, handler) ==
  LET shim == [id |-> w.scope.wrapped + 1, kind |-> "moduleFetch",
               of |-> handler] IN
  [w EXCEPT !.scope = superAddEventListener([w.scope EXCEPT !.wrapped = @ + 1],
                                            "fetch", shim)]

\* [kAddModuleScheduledListener](listener): likewise.
kAddModuleScheduledListener(w, handler) ==
  LET shim == [id |-> w.scope.wrapped + 1, kind |-> "moduleScheduled",
               of |-> handler] IN
  [w EXCEPT !.scope = superAddEventListener([w.scope EXCEPT !.wrapped = @ + 1],
                                            "scheduled", shim)]

\* ------------------------------------------------------------ listener code
\* What a listener (a script's code, synchronous or a later continuation of
\* it) does with the event it was given.  `by` is the position of the running
\* listener, 0 for a continuation that runs after the fan-out.

\* History: one respondWith call, its argument and what it threw.
NoteRespondWith(w, arg, r, by) ==
  [w EXCEPT !.hist.last = [threw |-> r.threw, sent |-> w.event.kSent],
            !.hist.accepted = IF r.threw = NoThrow
                                THEN Append(@, [arg |-> arg, by |-> by])
                                ELSE @]

\* e.respondWith(arg) in the running listener; a DOMException it throws is
\* caught by the listener's own code, or leaves the listener.
listenerRespondWith(w, arg, caught) ==
  LET r == respondWith(w.event, arg)
      w1 == [NoteRespondWith(w, arg, r, w.call.cur) EXCEPT !.event = r.event] IN
  IF r.threw = NoThrow \/ caught THEN w1 ELSE wrappedListenerCatches(w1, r.threw)

\* The shim running.
Current(w) == w.scope.listeners[w.event.type][w.call.cur]

\* The closure of [kAddModuleFetchListener] that ends without passing what the
\* handler returned to respondWith.
handlerReturns_dropsResult(w, res) == afterListener(w)

\* The closure of [kAddModuleFetchListener] after the exported handler,
\* called with e.request, has returned `res`: e.respondWith(res), and the
\* closure ends.  History keeps the handler's position, the request it was
\* given and what it returned.
handlerReturns(w, res) ==
  LET r == respondWith(w.event, res)
      w1 == [NoteRespondWith(w, res, r, w.call.cur)
               EXCEPT !.event = r.event,
                      !.hist.handled =
                         Append(@, [by |-> w.call.cur,
                                    request |-> w.event.request,
                                    res |-> res])] IN
  IF r.threw = NoThrow THEN afterListener(w1)
  ELSE wrappedListenerCatches(w1, r.threw)

\* An imperative listener that calls e.respondWith(res) as its last
\* statement.
listenerRespondsAndReturns(w, res) ==
  LET w1 == listenerRespondWith(w, res, FALSE) IN
  IF w1.hist.last.threw = NoThrow THEN afterListener(w1) ELSE w1

\* e.respondWith(arg) in a continuation: what it throws goes nowhere.
laterRespondWith(w, arg) ==
  LET r == respondWith(w.event, arg) IN
  [NoteRespondWith(w, arg, r, 0) EXCEPT !.event = r.event]

\* e.waitUntil(promise) with the next promise; history keeps every call,
\* whether the window was still open and whether a response was stored.
callWaitUntil(w) ==
  LET promise == Len(w.hist.made) + 1 IN
  [w EXCEPT !.event = waitUntil(w.event, promise),
            !.hist.made = Append(@, [promise |-> promise,
                                     open |-> ~w.event.kSent,
                                     responded |-> w.event.kResponse.set])]

\* e.waitUntil(promise) on a ScheduledEvent, with the next promise; history
\* keeps whether the call was made during the fan-out (open), and whether
\* dispatchScheduled had settled by then (responded).
callScheduledWaitUntil(w) ==
  LET promise == Len(w.hist.made) + 1 IN
  [w EXCEPT !.event = scheduledWaitUntil(w.event, promise),
            !.hist.made = Append(@, [promise |-> promise,
                                     open |-> w.call.pc = "listener",
                                     responded |-> w.call.pc = "done"])]

\* e.waitUntil(Promise.resolve(res)): the next promise, fulfilled from the
\* start when res is a plain value.
waitUntilResolved(w, res) ==
  LET promise == Len(w.hist.made) + 1 IN
  [callScheduledWaitUntil(w) EXCEPT
     !.env.tasks[promise] = IF res = "value" THEN "fulfilled" ELSE @]

\* The closure of [kAddModuleScheduledListener] after the exported handler,
\* called with the controller made from the event, has returned `res`:
\* e.waitUntil(Promise.resolve(res)), and the closure ends.  History keeps the
\* handler's position, the controller and the promise queued for `res`.
scheduledHandlerReturns(w, res) ==
  afterListener(
    [waitUntilResolved(w, res) EXCEPT
       !.hist.handled =
          Append(@, [by |-> w.call.cur,
                     controller |-> [cron |-> w.event.cron,
                                     scheduledTime |-> w.event.scheduledTime],
                     promise |-> Len(w.hist.made) + 1])])

\* An imperative listener that calls e.waitUntil(Promise.resolve(res)) as its
\* last statement.
listenerQueuesAndReturns(w, res) ==
  afterListener(waitUntilResolved(w, res))

\* e.stopImmediatePropagation() called by the listener itself.
callStopImmediatePropagation(w) ==
  [w EXCEPT !.event = stopImmediatePropagation(w.event),
            !.hist.stopped = w.call.cur]

\* e.passThroughOnException()
callPassThrough(w) == [w EXCEPT !.event = passThroughOnException(w.event)]

InListener(w) == w.call.pc = "listener"
\* A continuation of listener code can run: the fan-out is over, and some
\* listener was given the event.
CanContinue(w) ==
  w.call.pc \in {"await_response", "await_fetch", "done"} /\ w.hist.invoked # <<>>

\* ---------------------------------------------------------------- actions
\* Every active run whose guard G holds takes the step F; the runs in `who`
\* take it, the other runs stay.
Lift(who, G(_), F(_)) ==
  /\ \A r \in active : G(World(r))
  /\ LET nw == [r \in Runs |-> IF r \in who THEN F(World(r)) ELSE World(r)] IN
       /\ event' = [r \in Runs |-> nw[r].event]
       /\ scope' = [r \in Runs |-> nw[r].scope]
       /\ call' = [r \in Runs |-> nw[r].call]
       /\ env' = [r \in Runs |-> nw[r].env]
       /\ hist' = [r \in Runs |-> nw[r].hist]
  /\ UNCHANGED <<active, limit, kv>>

\* A script registers its listeners L1, L2, ... in this order; it may pass one
\* it has registered before.
AddEventListener(listener) ==
  Lift(active,
          LAMBDA w : /\ w.call.pc = "idle"
                     /\ listener <= Len(w.scope.listeners["fetch"]) + 1
                     /\ listener <= limit.listeners,
          LAMBDA w : addEventListener(w, "fetch", listener))

DispatchFetch(request, proxy) ==
  Lift(active, LAMBDA w : w.call.pc = "idle",
          LAMBDA w : kDispatchFetch(w, request, proxy))

ListenerRespondWith(arg, caught) ==
  Lift(active, InListener,
          LAMBDA w : listenerRespondWith(w, arg, caught))

\* The runs differ only in who calls passThroughOnException.
ListenerPassThrough(who) ==
  Lift(who, InListener, callPassThrough)

ListenerWaitUntil ==
  Lift(active, LAMBDA w : InListener(w) /\ Len(w.hist.made) < limit.tasks,
          callWaitUntil)

ListenerThrows(error) ==
  Lift(active, InListener, LAMBDA w : wrappedListenerCatches(w, error))

ListenerReturns ==
  Lift(active, InListener, afterListener)

LaterRespondWith(arg) ==
  Lift(active, CanContinue, LAMBDA w : laterRespondWith(w, arg))

LaterPassThrough(who) ==
  Lift(who, CanContinue, callPassThrough)

LaterWaitUntil ==
  Lift(active,
          LAMBDA w : CanContinue(w) /\ Len(w.hist.made) < limit.tasks,
          callWaitUntil)

\* The promise passed to respondWith settles.
ResponseSettles(how) ==
  Lift(active,
          LAMBDA w : w.event.kResponse.of = PendingResponse /\ w.env.respP = "pending",
          LAMBDA w : [w EXCEPT !.env.respP = how])

\* A promise passed to waitUntil settles.
TaskSettles(t, how) ==
  Lift(active,
          LAMBDA w : t <= Len(w.hist.made) /\ w.env.tasks[t] = "pending",
          LAMBDA w : [w EXCEPT !.env.tasks[t] = how])

\* The forwarder's promise settles.
FetchSettles(how) ==
  Lift(active, LAMBDA w : w.env.fetchP = "pending",
          LAMBDA w : [w EXCEPT !.env.fetchP = how])

ResponseResumes ==
  Lift(active, responseReady, responseResumes)

FetchResumes ==
  Lift(active,
          LAMBDA w : w.call.pc = "await_fetch" /\ w.env.fetchP # "pending",
          fetchResumes)

\* A script calls the global listener API with any of its listeners.
CallAddEventListener(type, listener) ==
  Lift(active, LAMBDA w : w.call.pc = "idle" /\ listener <= limit.listeners,
          LAMBDA w : addEventListener(w, type, listener))

CallRemoveEventListener(type, listener) ==
  Lift(active, LAMBDA w : w.call.pc = "idle" /\ listener <= limit.listeners,
          LAMBDA w : removeEventListener(w, type, listener))

\* A script, or a listener that catches what the call throws, dispatches an
\* event of its own.
CallDispatchEvent(inner) ==
  Lift(active, LAMBDA w : w.call.pc \in {"idle", "listener"},
          LAMBDA w : dispatchEvent(w, inner))

\* The module loader registers an exported fetch handler.
AddModuleFetchListener(handler) ==
  Lift(active,
          LAMBDA w : /\ w.call.pc = "idle"
                     /\ handler = Len(w.scope.listeners["fetch"]) + 1
                     /\ handler <= limit.handlers,
          LAMBDA w : kAddModuleFetchListener(w, handler))

\* The exported fetch handler returns.
HandlerReturns(res) ==
  Lift(active,
          LAMBDA w : InListener(w) /\ Current(w).kind = "moduleFetch",
          LAMBDA w : handlerReturns(w, res))

DispatchScheduled(scheduledTime, cron, now) ==
  Lift(active, LAMBDA w : w.call.pc = "idle",
          LAMBDA w : kDispatchScheduled(w, scheduledTime, cron, now))

ScheduledWaitUntil ==
  Lift(active, LAMBDA w : InListener(w) /\ Len(w.hist.made) < limit.tasks,
          callScheduledWaitUntil)

\* A continuation of a listener calls waitUntil after the fan-out.
LaterScheduledWaitUntil ==
  Lift(active,
          LAMBDA w : /\ w.call.pc \in {"await_tasks", "done"}
                     /\ w.hist.invoked # <<>>
                     /\ Len(w.hist.made) < limit.tasks,
          callScheduledWaitUntil)

ListenerStops ==
  Lift(active, LAMBDA w : InListener(w) /\ ~w.event.stopImmediate,
          callStopImmediatePropagation)

TasksResume ==
  Lift(active, tasksReady, tasksResume)

Settled == {"fulfilled", "rejected"}

Next ==
  \/ \E listener \in Listeners : AddEventListener(listener)
  \/ \E request \in Requests, proxy \in BOOLEAN : DispatchFetch(request, proxy)
  \/ \E arg \in limit.args, caught \in BOOLEAN : ListenerRespondWith(arg, caught)
  \/ \E who \in SUBSET active : who # {} /\ ListenerPassThrough(who)
  \/ ListenerWaitUntil
  \/ \E error \in limit.errors : ListenerThrows(error)
  \/ ListenerReturns
  \/ \E arg \in limit.args : LaterRespondWith(arg)
  \/ \E who \in SUBSET active : who # {} /\ LaterPassThrough(who)
  \/ LaterWaitUntil
  \/ \E how \in Settled : ResponseSettles(how)
  \/ \E how \in Settled : FetchSettles(how)
  \/ ResponseResumes
  \/ FetchResumes

\* Next, and the promises handed to waitUntil settle, each at any time.
NextBG ==
  \/ Next
  \/ \E t \in Tasks, how \in Settled : TaskSettles(t, how)

\* One scope, one dispatch.
Init ==
  /\ kv = NewKVNamespace
  /\ event = [r \in Runs |-> NewWorld.event]
  /\ scope = [r \in Runs |-> NewWorld.scope]
  /\ call = [r \in Runs |-> NewWorld.call]
  /\ env = [r \in Runs |-> NewWorld.env]
  /\ hist = [r \in Runs |-> NewWorld.hist]
  /\ active = {1}
  /\ limit = [listeners |-> MaxListeners, tasks |-> MaxTasks,
              args |-> RespondArgs, errors |-> ThrowArgs]

Spec == Init /\ [][Next]_vars

\* Two scopes given the same listeners, requests and promises: run 2 takes
\* every step run 1 takes, except that a passThroughOnException call may be
\* made in one run and not in the other.
InitPT ==
  /\ kv = NewKVNamespace
  /\ event = [r \in Runs |-> NewWorld.event]
  /\ scope = [r \in Runs |-> NewWorld.scope]
  /\ call = [r \in Runs |-> NewWorld.call]
  /\ env = [r \in Runs |-> NewWorld.env]
  /\ hist = [r \in Runs |-> NewWorld.hist]
  /\ active = {1, 2}
  /\ limit = [listeners |-> TwinListeners, tasks |-> TwinTasks,
              args |-> RespondArgs, errors |-> ThrowArgs]

SpecPT == InitPT /\ [][Next]_vars

\* One scope, one dispatch, and the background tasks settle.
InitBG ==
  /\ kv = NewKVNamespace
  /\ event = [r \in Runs |-> NewWorld.event]
  /\ scope = [r \in Runs |-> NewWorld.scope]
  /\ call = [r \in Runs |-> NewWorld.call]
  /\ env = [r \in Runs |-> NewWorld.env]
  /\ hist = [r \in Runs |-> NewWorld.hist]
  /\ active = {1}
  /\ limit = [listeners |-> FewListeners, tasks |-> FewTasks,
              args |-> {"ResponseA", PendingResponse}, errors |-> {"ErrorE1"}]

SpecBG == InitBG /\ [][NextBG]_vars

\* One scope, one dispatch.  The event loop runs the continuation of an await
\* once the awaited promise has settled, so the two resumptions of
\* [kDispatchFetch] are weakly fair; nothing makes a listener, a script's
\* promise or the forwarder ever finish.
InitFair ==
  /\ kv = NewKVNamespace
  /\ event = [r \in Runs |-> NewWorld.event]
  /\ scope = [r \in Runs |-> NewWorld.scope]
  /\ call = [r \in Runs |-> NewWorld.call]
  /\ env = [r \in Runs |-> NewWorld.env]
  /\ hist = [r \in Runs |-> NewWorld.hist]
  /\ active = {1}
  /\ limit = [listeners |-> FairListeners, tasks |-> FairTasks,
              args |-> {"ResponseA", PendingResponse}, errors |-> {"ErrorE1"}]

FairSpec ==
  /\ InitFair
  /\ [][NextBG]_vars
  /\ WF_vars(ResponseResumes)
  /\ WF_vars(FetchResumes)

\* A scope constructed with modules = true: exported handlers, and scripts
\* that try the global listener API all the same.
NextMod ==
  \/ \E type \in Types, listener \in Listeners : CallAddEventListener(type, listener)
  \/ \E type \in Types, listener \in Listeners :
       CallRemoveEventListener(type, listener)
  \/ \E inner \in limit.errors \cup {NoThrow} : CallDispatchEvent(inner)
  \/ \E handler \in 1..limit.handlers : AddModuleFetchListener(handler)
  \/ \E request \in Requests, proxy \in BOOLEAN : DispatchFetch(request, proxy)
  \/ \E who \in SUBSET active : who # {} /\ ListenerPassThrough(who)
  \/ ListenerWaitUntil
  \/ \E error \in limit.errors : ListenerThrows(error)
  \/ \E res \in limit.args : HandlerReturns(res)
  \/ \E who \in SUBSET active : who # {} /\ LaterPassThrough(who)
  \/ LaterWaitUntil
  \/ \E how \in Settled : ResponseSettles(how)
  \/ \E how \in Settled : FetchSettles(how)
  \/ ResponseResumes
  \/ FetchResumes

InitMod ==
  /\ kv = NewKVNamespace
  /\ event = [r \in Runs |-> NewWorld.event]
  /\ scope = [r \in Runs |-> [NewWorld.scope EXCEPT !.modules = TRUE]]
  /\ call = [r \in Runs |-> NewWorld.call]
  /\ env = [r \in Runs |-> NewWorld.env]
  /\ hist = [r \in Runs |-> NewWorld.hist]
  /\ active = {1}
  /\ limit = [listeners |-> ModListeners, tasks |-> ModTasks,
              handlers |-> ModHandlers,
              args |-> {"ResponseA", Undefined, PendingResponse},
              errors |-> {"ErrorE1"}]

SpecMod == InitMod /\ [][NextMod]_vars

\* One scope in imperative mode, one dispatchScheduled.
NextCron ==
  \/ \E listener \in Listeners : CallAddEventListener("scheduled", listener)
  \/ \E scheduledTime \in limit.times, cron \in limit.crons, now \in limit.clock :
       DispatchScheduled(scheduledTime, cron, now)
  \/ ScheduledWaitUntil
  \/ ListenerStops
  \/ \E error \in limit.errors : ListenerThrows(error)
  \/ ListenerReturns
  \/ LaterScheduledWaitUntil
  \/ \E t \in Tasks, how \in Settled : TaskSettles(t, how)
  \/ TasksResume

InitCron ==
  /\ kv = NewKVNamespace
  /\ event = [r \in Runs |-> NewWorld.event]
  /\ scope = [r \in Runs |-> NewWorld.scope]
  /\ call = [r \in Runs |-> NewWorld.call]
  /\ env = [r \in Runs |-> NewWorld.env]
  /\ hist = [r \in Runs |-> NewWorld.hist]
  /\ active = {1}
  /\ limit = [listeners |-> CronListeners, tasks |-> CronTasks,
              times |-> {Given(1000)}, crons |-> {Given("")}, clock |-> {2000},
              errors |-> {"ErrorE1", Undefined}]

SpecCron == InitCron /\ [][NextCron]_vars

\* One dispatchScheduled with each combination of arguments.
InitArgs ==
  /\ kv = NewKVNamespace
  /\ event = [r \in Runs |-> NewWorld.event]
  /\ scope = [r \in Runs |-> NewWorld.scope]
  /\ call = [r \in Runs |-> NewWorld.call]
  /\ env = [r \in Runs |-> NewWorld.env]
  /\ hist = [r \in Runs |-> NewWorld.hist]
  /\ active = {1}
  /\ limit = [listeners |-> ArgListeners, tasks |-> ArgTasks,
              times |-> ScheduledTimes, crons |-> Crons, clock |-> Clock,
              errors |-> {"ErrorE1"}]

SpecArgs == InitArgs /\ [][NextCron]_vars

\* One scope in imperative mode, one dispatchFetch, and scripts and listeners
\* that call dispatchEvent with events of their own.
NextNest ==
  \/ Next
  \/ \E inner \in limit.errors \cup {NoThrow} : CallDispatchEvent(inner)

InitNest ==
  /\ kv = NewKVNamespace
  /\ event = [r \in Runs |-> NewWorld.event]
  /\ scope = [r \in Runs |-> NewWorld.scope]
  /\ call = [r \in Runs |-> NewWorld.call]
  /\ env = [r \in Runs |-> NewWorld.env]
  /\ hist = [r \in Runs |-> NewWorld.hist]
  /\ active = {1}
  /\ limit = [listeners |-> NestListeners, tasks |-> NestTasks,
              args |-> {"ResponseA", PendingResponse}, errors |-> {"ErrorE1"}]

SpecNest == InitNest /\ [][NextNest]_vars

\* One scope in imperative mode: a script adds and removes listeners of both
\* types in any order, then one event is dispatched.
NextReg ==
  \/ \E type \in Types, listener \in Listeners : CallAddEventListener(type, listener)
  \/ \E type \in Types, listener \in Listeners :
       CallRemoveEventListener(type, listener)
  \/ \E request \in Requests, proxy \in BOOLEAN : DispatchFetch(request, proxy)
  \/ \E scheduledTime \in limit.times, cron \in limit.crons, now \in limit.clock :
       DispatchScheduled(scheduledTime, cron, now)
  \/ \E error \in limit.errors : ListenerThrows(error)
  \/ ListenerReturns
  \/ \E how \in Settled : FetchSettles(how)
  \/ ResponseResumes
  \/ FetchResumes
  \/ TasksResume

InitReg ==
  /\ kv = NewKVNamespace
  /\ event = [r \in Runs |-> NewWorld.event]
  /\ scope = [r \in Runs |-> NewWorld.scope]
  /\ call = [r \in Runs |-> NewWorld.call]
  /\ env = [r \in Runs |-> NewWorld.env]
  /\ hist = [r \in Runs |-> NewWorld.hist]
  /\ active = {1}
  /\ limit = [listeners |-> RegListeners, tasks |-> 0,
              times |-> {Given(1000)}, crons |-> {Given("")}, clock |-> {2000},
              errors |-> {"ErrorE1"}]

SpecReg == InitReg /\ [][NextReg]_vars

\* The event being dispatched is of this type.
Dispatching(type) == \A r \in active : event[r].type = type

\* One scope with listeners of both types and one dispatch, of a fetch or of a
\* scheduled event, whose listeners queue tasks that settle at any time, or
\* never.  The event loop runs the continuation of an await whose promise has
\* settled, so the three resumptions are weakly fair; nothing makes a task
\* settle.
NextAgg ==
  \/ \E type \in Types, listener \in Listeners : CallAddEventListener(type, listener)
  \/ \E request \in Requests, proxy \in BOOLEAN : DispatchFetch(request, proxy)
  \/ \E scheduledTime \in limit.times, cron \in limit.crons, now \in limit.clock :
       DispatchScheduled(scheduledTime, cron, now)
  \/ \E arg \in limit.args, caught \in BOOLEAN :
       Dispatching("fetch") /\ ListenerRespondWith(arg, caught)
  \/ Dispatching("fetch") /\ ListenerWaitUntil
  \/ Dispatching("scheduled") /\ ScheduledWaitUntil
  \/ ListenerReturns
  \/ \E t \in Tasks, how \in Settled : TaskSettles(t, how)
  \/ \E how \in Settled : FetchSettles(how)
  \/ ResponseResumes
  \/ FetchResumes
  \/ TasksResume

InitAgg ==
  /\ kv = NewKVNamespace
  /\ event = [r \in Runs |-> NewWorld.event]
  /\ scope = [r \in Runs |-> NewWorld.scope]
  /\ call = [r \in Runs |-> NewWorld.call]
  /\ env = [r \in Runs |-> NewWorld.env]
  /\ hist = [r \in Runs |-> NewWorld.hist]
  /\ active = {1}
  /\ limit = [listeners |-> AggListeners, tasks |-> AggTasks,
              args |-> {"ResponseA"}, errors |-> {},
              times |-> {Given(1000)}, crons |-> {Given("")}, clock |-> {2000}]

FairAgg ==
  /\ InitAgg
  /\ [][NextAgg]_vars
  /\ WF_vars(ResponseResumes)
  /\ WF_vars(FetchResumes)
  /\ WF_vars(TasksResume)

\* ------------------------------------- exported handlers and their equals
\* Run 1 is a scope in modules mode given exported handlers; run 2 is a scope
\* in imperative mode given, for each handler, the listener that makes the
\* calls on the event that the handler makes through ctx and, as its last
\* statement, the call the closure makes with what the handler returns.
RegisterHandler(type, handler) ==
  Lift(active,
          LAMBDA w : /\ w.call.pc = "idle"
                     /\ handler = Len(w.scope.listeners[type]) + 1
                     /\ handler <= limit.handlers,
          LAMBDA w : IF ~w.scope.modules THEN addEventListener(w, type, handler)
                     ELSE IF type = "fetch"
                       THEN kAddModuleFetchListener(w, handler)
                     ELSE kAddModuleScheduledListener(w, handler))

\* The fetch handler returns `res`, and so does the listener after
\* e.respondWith(res).
FetchHandlerReturns(res) ==
  /\ Dispatching("fetch")
  /\ Lift(active, InListener,
             LAMBDA w : IF w.scope.modules THEN handlerReturns(w, res)
                        ELSE listenerRespondsAndReturns(w, res))

\* The scheduled handler returns `res`, and so does the listener after
\* e.waitUntil(Promise.resolve(res)).
ScheduledHandlerReturns(res) ==
  /\ Dispatching("scheduled")
  /\ Lift(active, InListener,
             LAMBDA w : IF w.scope.modules THEN scheduledHandlerReturns(w, res)
                        ELSE listenerQueuesAndReturns(w, res))

NextAdapter ==
  \/ \E type \in Types, handler \in Listeners : RegisterHandler(type, handler)
  \/ \E request \in Requests, proxy \in BOOLEAN : DispatchFetch(request, proxy)
  \/ \E scheduledTime \in limit.times, cron \in limit.crons, now \in limit.clock :
       DispatchScheduled(scheduledTime, cron, now)
  \/ Dispatching("fetch") /\ ListenerPassThrough(active)
  \/ Dispatching("fetch") /\ ListenerWaitUntil
  \/ Dispatching("scheduled") /\ ScheduledWaitUntil
  \/ \E error \in limit.errors : ListenerThrows(error)
  \/ \E res \in limit.args : FetchHandlerReturns(res)
  \/ \E res \in ScheduledReturns : ScheduledHandlerReturns(res)
  \/ Dispatching("fetch") /\ LaterWaitUntil
  \/ Dispatching("scheduled") /\ LaterScheduledWaitUntil
  \/ \E how \in Settled : Dispatching("fetch") /\ ResponseSettles(how)
  \/ \E t \in Tasks, how \in Settled : TaskSettles(t, how)
  \/ \E how \in Settled : FetchSettles(how)
  \/ ResponseResumes
  \/ FetchResumes
  \/ TasksResume

InitAdapter ==
  /\ kv = NewKVNamespace
  /\ event = [r \in Runs |-> NewWorld.event]
  /\ scope = [r \in Runs |-> [NewWorld.scope EXCEPT !.modules = (r = 1)]]
  /\ call = [r \in Runs |-> NewWorld.call]
  /\ env = [r \in Runs |-> NewWorld.env]
  /\ hist = [r \in Runs |-> NewWorld.hist]
  /\ active = {1, 2}
  /\ limit = [listeners |-> AdapterHandlers, handlers |-> AdapterHandlers,
              tasks |-> AdapterTasks,
              args |-> {"ResponseA", Undefined, PendingResponse},
              errors |-> {"ErrorE1"},
              times |-> {Given(1000)}, crons |-> {Given("* * * * *")},
              clock |-> {2000}]

SpecAdapter == InitAdapter /\ [][NextAdapter]_vars

\* ------------------------------------------- two calls of [kDispatchFetch]
\* Runs 1 and 2 are two calls of [kDispatchFetch] on one scope: each has its
\* own FetchEvent, locals, promises and warnings, and both have the scope.
\* One slot for the event on the scope, in place of an event for each call.
Overlap_eventOnScope(r, nw) ==
  /\ event' = [q \in Runs |-> nw.event]
  /\ scope' = [q \in Runs |-> nw.scope]
  /\ call' = [call EXCEPT ![r] = nw.call]
  /\ env' = [env EXCEPT ![r] = nw.env]
  /\ hist' = [hist EXCEPT ![r] = nw.hist]
  /\ UNCHANGED <<active, limit, kv>>

\* Call r has taken a step to the world nw: the event is the FetchEvent made
\* at event.ts:241, a local of the call, and the scope is `this` of both.
Overlap(r, nw) ==
  /\ event' = [event EXCEPT ![r] = nw.event]
  /\ scope' = [q \in Runs |-> nw.scope]
  /\ call' = [call EXCEPT ![r] = nw.call]
  /\ env' = [env EXCEPT ![r] = nw.env]
  /\ hist' = [hist EXCEPT ![r] = nw.hist]
  /\ UNCHANGED <<active, limit, kv>>

\* Code of call r can run: the fan-out of [kDispatchFetch] has no await, so
\* nothing runs while the other call is inside its fan-out.
Quiet(r) == \A q \in Runs \ {r} : call[q].pc # "listener"

\* The calls that have taken effect on the event of call r.
Effects(r) ==
  Len(hist[r].made) + Len(hist[r].accepted)
    + (IF event[r].kPassThrough THEN 1 ELSE 0)

\* The scripts may make another call on one of the events.
MayCall == Effects(1) + Effects(2) < limit.calls

\* Call r takes the step F when its guard G holds.
Does(r, G(_), F(_)) ==
  /\ Quiet(r)
  /\ G(World(r))
  /\ Overlap(r, F(World(r)))

\* The second call is made once the first is under way.
OverlapDispatchFetch(r, request, proxy) ==
  /\ r = 2 => call[1].pc # "idle"
  /\ Does(r, LAMBDA w : w.call.pc = "idle",
             LAMBDA w : kDispatchFetch(w, request, proxy))

OverlapRespondWith(r, arg, caught) ==
  MayCall /\ Does(r, InListener, LAMBDA w : listenerRespondWith(w, arg, caught))

OverlapPassThrough(r) ==
  MayCall /\ Does(r, LAMBDA w : InListener(w) /\ ~w.event.kPassThrough, callPassThrough)

OverlapWaitUntil(r) ==
  MayCall /\ Does(r, InListener, callWaitUntil)

OverlapThrows(r, error) ==
  Does(r, InListener, LAMBDA w : wrappedListenerCatches(w, error))

OverlapReturns(r) ==
  Does(r, InListener, afterListener)

OverlapLaterPassThrough(r) ==
  MayCall /\ Does(r, LAMBDA w : CanContinue(w) /\ ~w.event.kPassThrough, callPassThrough)

OverlapLaterWaitUntil(r) ==
  MayCall /\ Does(r, CanContinue, callWaitUntil)

OverlapResponseSettles(r, how) ==
  Does(r, LAMBDA w : /\ w.event.kResponse.of = PendingResponse
                     /\ w.env.respP = "pending",
          LAMBDA w : [w EXCEPT !.env.respP = how])

OverlapResponseResumes(r) ==
  Does(r, responseReady, responseResumes)

NextOverlap ==
  \/ \E listener \in Listeners : AddEventListener(listener)
  \/ \E r \in Runs, request \in Requests, proxy \in limit.proxy :
       OverlapDispatchFetch(r, request, proxy)
  \/ \E r \in Runs, arg \in limit.args, caught \in BOOLEAN :
       OverlapRespondWith(r, arg, caught)
  \/ \E r \in Runs : OverlapPassThrough(r)
  \/ \E r \in Runs : OverlapWaitUntil(r)
  \/ \E r \in Runs, error \in limit.errors : OverlapThrows(r, error)
  \/ \E r \in Runs : OverlapReturns(r)
  \/ \E r \in Runs : OverlapLaterPassThrough(r)
  \/ \E r \in Runs : OverlapLaterWaitUntil(r)
  \/ \E r \in Runs, how \in Settled : OverlapResponseSettles(r, how)
  \/ \E r \in Runs : OverlapResponseResumes(r)

\* One scope; the listeners are registered before the first call, and both
\* calls are made without a forwarder.
InitOverlap ==
  /\ kv = NewKVNamespace
  /\ event = [r \in Runs |-> NewWorld.event]
  /\ scope = [r \in Runs |-> NewWorld.scope]
  /\ call = [r \in Runs |-> NewWorld.call]
  /\ env = [r \in Runs |-> NewWorld.env]
  /\ hist = [r \in Runs |-> NewWorld.hist]
  /\ active = {1, 2}
  /\ limit = [listeners |-> OverlapListeners, calls |-> OverlapCalls,
              args |-> {"ResponseA", PendingResponse}, errors |-> Errors,
              proxy |-> {FALSE}]

SpecOverlap == InitOverlap /\ [][NextOverlap]_vars

\* ------------------------------------------------------------ KVNamespace
\* millisToSeconds of @miniflare/shared: whole seconds.
millisToSeconds(millis) == millis \div 1000

\* normaliseInt(value): undefined for undefined, parseInt of a string,
\* Math.round of a number; the values here are integers and their decimal
\* texts.
normaliseInt(value) ==
  IF value.type = "undefined" THEN NoInt ELSE [defined |-> TRUE, n |-> value.n]

\* put(key, value, options) with a valid key, from "Normalise and validate
\* expiration" on.  `else if (expiration)` tests the number for truthiness.
put(ns, key, size, options) ==
  LET now == millisToSeconds(ns.clock)
      given == normaliseInt(options.expiration)
      expirationTtl == normaliseInt(options.expirationTtl)
      note == [key |-> key, expiration |-> options.expiration,
               expirationTtl |-> options.expirationTtl, size |-> size,
               now |-> now, result |-> "none", wrote |-> FALSE]
      fails(error) == [ns EXCEPT !.last = [note EXCEPT !.result = error]]
      stores(expiration) ==
        IF size = "tooLarge" THEN fails(KVPut413)
        ELSE [ns EXCEPT !.storage[key] = [stored |-> TRUE,
                                          expiration |-> expiration,
                                          at |-> now],
                        !.last = [note EXCEPT !.result = "stored",
                                              !.wrote = TRUE]] IN
  IF expirationTtl.defined
    THEN IF expirationTtl.n <= 0 THEN fails(KVPut400)
         ELSE IF expirationTtl.n < MIN_CACHE_TTL THEN fails(KVPut400)
         ELSE stores([defined |-> TRUE, n |-> now + expirationTtl.n])
  ELSE IF given.defined /\ given.n # 0
    THEN IF given.n <= now THEN fails(KVPut400)
         ELSE IF given.n < now + MIN_CACHE_TTL THEN fails(KVPut400)
         ELSE stores(given)
  ELSE stores(given)

\* A script calls put.
Put(key, size, expiration, expirationTtl) ==
  /\ kv' = put(kv, key, size,
               [expiration |-> expiration, expirationTtl |-> expirationTtl])
  /\ UNCHANGED <<event, scope, call, env, hist, active, limit>>

\* Time passes.
ClockAdvances(millis) ==
  /\ millis > kv.clock
  /\ kv' = [kv EXCEPT !.clock = millis]
  /\ UNCHANGED <<event, scope, call, env, hist, active, limit>>

NextKV ==
  \/ \E key \in 1..limit.keys, size \in ValueSizes, expiration \in Expirations,
        expirationTtl \in ExpirationTtls :
       Put(key, size, expiration, expirationTtl)
  \/ \E millis \in KVClock : ClockAdvances(millis)

InitKV ==
  /\ kv = NewKVNamespace
  /\ event = [r \in Runs |-> NewWorld.event]
  /\ scope = [r \in Runs |-> NewWorld.scope]
  /\ call = [r \in Runs |-> NewWorld.call]
  /\ env = [r \in Runs |-> NewWorld.env]
  /\ hist = [r \in Runs |-> NewWorld.hist]
  /\ active = {}
  /\ limit = [keys |-> KVKeys]

SpecKV == InitKV /\ [][NextKV]_vars

\* ================================================================ properties
\* Run 1, the program.
ev == event[1]
sc == scope[1]
cl == call[1]
en == env[1]
hi == hist[1]

\* The promises passed to waitUntil before the window closed, in call order.
EnqueuedInWindow ==
  LET open == SelectSeq(hi.made, LAMBDA m : m.open) IN
  [i \in 1..Len(open) |-> open[i].promise]

\* A step that is one call of respondWith, by a listener or a continuation.
RespondWithStep ==
  \/ \E arg \in RespondArgs, caught \in BOOLEAN : ListenerRespondWith(arg, caught)
  \/ \E arg \in RespondArgs : LaterRespondWith(arg)

\* C1: on one FetchEvent at most one respondWith call succeeds; the stored
\* response is the argument of that call; and every respondWith call made once
\* a response is stored throws InvalidStateError and leaves the stored
\* response as it is.
C1_RespondWithOnce ==
  /\ [](/\ Len(hi.accepted) <= 1
        /\ ev.kResponse.set <=> hi.accepted # <<>>
        /\ hi.accepted # <<>> => ev.kResponse = PromiseResolve(hi.accepted[1].arg))
  /\ [][(RespondWithStep /\ ev.kResponse.set) =>
          /\ hist'[1].last.threw \in InvalidStateError
          /\ event'[1].kResponse = ev.kResponse
          /\ hist'[1].accepted = hi.accepted]_vars

\* A second respondWith call was refused after a first one had succeeded.
C1_Witness ==
  /\ hi.accepted # <<>>
  /\ hi.accepted[1].arg = "ResponseA"
  /\ hi.last.threw = AlreadyCalled

\* C2: when the respondWith call of the listener at position i of the registry
\* succeeds during the fan-out, the listeners invoked for the event are exactly
\* those at positions 1..i, in registration order: every earlier one was
\* invoked before it and no later one is ever invoked.
C2_RespondHaltsFanOut ==
  /\ \E k \in 0..Len(sc.listeners["fetch"]) :
       hi.invoked = SubSeq(sc.listeners["fetch"], 1, k)
  /\ (hi.accepted # <<>> /\ hi.accepted[1].by > 0) =>
       hi.invoked = SubSeq(sc.listeners["fetch"], 1, hi.accepted[1].by)

\* L1, L2, L3 are registered, L2 responded, and the dispatch is over.
C2_Witness ==
  /\ Len(sc.listeners["fetch"]) = 3
  /\ hi.accepted # <<>>
  /\ hi.accepted[1].by = 2
  /\ cl.pc = "done"

\* A further respondWith call was made after one had succeeded in a listener
\* with a Response, and no listener threw a value of its own.
SecondRespondWith ==
  /\ hi.accepted # <<>>
  /\ hi.accepted[1].by > 0
  /\ hi.accepted[1].arg \in Responses
  /\ Len(hi.accepted) > 1 \/ hi.last.threw # NoThrow
  /\ \A i \in 1..Len(hi.thrown) : hi.thrown[i].value \in InvalidStateError

C4_RespondWithAfterClose ==
  [][(RespondWithStep /\ ev.kSent) =>
       /\ hist'[1].last.threw \in InvalidStateError
       /\ hist'[1].last.sent
       /\ event'[1] = ev]_vars

\* A call was refused as too late: the window was closed, nothing was stored.
C4_Witness ==
  /\ hi.last.sent
  /\ hi.last.threw = TooLate
  /\ ~ev.kResponse.set

\* The error objects a listener can throw: its own, or respondWith's.
ErrorObjects == Errors \cup InvalidStateError

\* C5: when a listener throws an error E and passThroughOnException had not
\* been called, dispatchFetch rejects with E itself, the forwarder is not
\* invoked and nothing is logged, with or without a fallback and with or
\* without a stored response.
C5_ThrowIsRethrown ==
  (/\ hi.thrown # <<>>
   /\ hi.thrown[1].value \in ErrorObjects
   /\ ~hi.thrown[1].passThrough) =>
    /\ cl.pc = "done"
    /\ cl.outcome = Rejected(hi.thrown[1].value)
    /\ en.fetched = <<>>
    /\ en.log = <<>>

\* A listener responded and then threw, with a fallback configured.
C5_Witness ==
  /\ hi.thrown = <<[value |-> "ErrorE1", passThrough |-> FALSE]>>
  /\ hi.accepted # <<>>
  /\ cl.proxy
  /\ cl.pc = "done"

\* C6: when a listener throws an error E after passThroughOnException was
\* called, exactly one warning is logged; with a fallback the forwarder is
\* invoked once and dispatchFetch settles as the forwarder does; without one
\* dispatchFetch rejects with the unhandled-request error, not with E.
C6_PassThroughRecovers ==
  (/\ hi.thrown # <<>>
   /\ hi.thrown[1].value \in ErrorObjects
   /\ hi.thrown[1].passThrough) =>
    /\ en.log = <<hi.thrown[1].value>>
    /\ cl.proxy =>
         /\ Len(en.fetched) = 1
         /\ cl.pc \in {"await_fetch", "done"}
         /\ cl.pc = "done" =>
              cl.outcome = IF en.fetchP = "fulfilled"
                             THEN withWaitUntil(ProxyResponse, EnqueuedInWindow)
                             ELSE Rejected(ProxyError)
    /\ ~cl.proxy =>
         /\ cl.pc = "done"
         /\ cl.outcome = Rejected(UnhandledRequest)
         /\ en.fetched = <<>>

\* A listener threw under pass-through and the forwarder's response came back.
C6_Witness ==
  /\ hi.thrown = <<[value |-> "ErrorE1", passThrough |-> TRUE]>>
  /\ cl.pc = "done"
  /\ cl.outcome.value = ProxyResponse

\* The fan-out ended with no response stored and no listener error.
Unhandled ==
  /\ cl.pc \in {"await_fetch", "done"}
  /\ ~cl.awaited.set
  /\ hi.thrown = <<>>

\* C7: when the fan-out ends with no response stored and no listener error,
\* with a fallback the forwarder is invoked exactly once, with the original
\* request less its host header, and dispatchFetch settles as the forwarder
\* does, the background future attached; without a fallback dispatchFetch
\* rejects with the unhandled-request error.  When dispatchFetch settles with
\* a listener's response or with any error but the forwarder's, the forwarder
\* was not invoked.
C7_FallbackOnlyWhenUnhandled ==
  /\ (Unhandled /\ cl.proxy) =>
       /\ en.fetched = <<[headers |-> ev.request.headers \ {"host"}]>>
       /\ cl.pc = "done" =>
            cl.outcome = IF en.fetchP = "fulfilled"
                           THEN withWaitUntil(ProxyResponse, EnqueuedInWindow)
                           ELSE Rejected(ProxyError)
  /\ (Unhandled /\ ~cl.proxy) =>
       /\ cl.outcome = Rejected(UnhandledRequest)
       /\ en.fetched = <<>>
  /\ (cl.outcome.kind # "pending"
        /\ cl.outcome.value \notin {ProxyResponse, ProxyError}) =>
       en.fetched = <<>>
  /\ Len(en.fetched) <= 1

\* Listeners ran, none responded, and the forwarder's response came back.
C7_Witness ==
  /\ Unhandled
  /\ hi.invoked # <<>>
  /\ "host" \in ev.request.headers
  /\ cl.pc = "done"
  /\ cl.outcome.value = ProxyResponse

\* The aggregate of the promises attached to the outcome.
BackgroundFuture == PromiseAll(cl.outcome.waitUntil, en.tasks)

C9_ResponseNotBlocked ==
  /\ (/\ cl.pc = "await_response"
      /\ Awaited(World(1)).state = "fulfilled"
      /\ Awaited(World(1)).value # Undefined)
       ~> (/\ cl.pc = "done"
           /\ cl.outcome.kind = "resolved"
           /\ cl.outcome.value = Awaited(World(1)).value)
  /\ (cl.pc = "await_fetch" /\ en.fetchP = "fulfilled")
       ~> (/\ cl.pc = "done"
           /\ cl.outcome.kind = "resolved"
           /\ cl.outcome.value = ProxyResponse)

\* dispatchFetch has resolved with the response a listener's promise resolved
\* to, and a task attached to it is still pending.
C9_Witness ==
  /\ cl.pc = "done"
  /\ cl.outcome.kind = "resolved"
  /\ cl.outcome.value = LateResponse
  /\ cl.outcome.waitUntil # <<>>
  /\ en.tasks[cl.outcome.waitUntil[1]] = "pending"

\* No listener threw and the pending response did not reject, in either run.
NoErrorInEitherRun ==
  \A r \in Runs : hist[r].thrown = <<>> /\ env[r].respP # "rejected"

\* C10: two runs that differ only in the passThroughOnException calls made,
\* in which no listener throws and the pending response does not reject,
\* agree on everything but the flag - the outcome, the forwarder's
\* invocations, the stored response, the listeners invoked - and log nothing;
\* a warning is logged only for an error recovered while the flag was set,
\* and it is that error.
C10_PassThroughOnlySetsFlag ==
  /\ NoErrorInEitherRun =>
       /\ call[1] = call[2]
       /\ env[1] = env[2]
       /\ scope[1] = scope[2]
       /\ hist[1] = hist[2]
       /\ [event[1] EXCEPT !.kPassThrough = FALSE]
            = [event[2] EXCEPT !.kPassThrough = FALSE]
       /\ env[1].log = <<>>
  /\ \A r \in Runs :
       env[r].log # <<>> =>
         /\ event[r].kPassThrough
         /\ \/ /\ hist[r].thrown # <<>>
               /\ hist[r].thrown[1].passThrough
               /\ hist[r].thrown[1].value # Undefined
               /\ env[r].log = <<hist[r].thrown[1].value>>
            \/ /\ call[r].awaited.of = PendingResponse
               /\ env[r].respP = "rejected"
               /\ env[r].log = <<LateRejection>>

\* Both runs are over with the same response; only one called
\* passThroughOnException.
C10_Witness ==
  /\ NoErrorInEitherRun
  /\ event[1].kPassThrough /\ ~event[2].kPassThrough
  /\ hist[1].invoked # <<>>
  /\ call[1].pc = "done" /\ call[2].pc = "done"
  /\ call[2].outcome.kind = "resolved"

\* A step that is one call of the global listener API.
GlobalApiStep ==
  \/ \E type \in Types, listener \in Listeners : CallAddEventListener(type, listener)
  \/ \E type \in Types, listener \in Listeners :
       CallRemoveEventListener(type, listener)
  \/ \E inner \in ThrowArgs \cup {NoThrow} : CallDispatchEvent(inner)

\* C11: on a scope constructed in modules mode the mode never changes; every
\* call of addEventListener, removeEventListener or dispatchEvent throws the
\* TypeError and leaves the scope's fields - the listener lists among them -
\* as they were; the lists hold exported handlers only and no dispatch invokes
\* a listener passed to the global API.
C11_GlobalApiDisabledInModules ==
  /\ [](/\ sc.modules
        /\ hi.api.op # "none" => hi.api.threw = ModulesTypeError
        /\ \A type \in Types : \A i \in 1..Len(sc.listeners[type]) :
             sc.listeners[type][i].kind # "listener"
        /\ \A i \in 1..Len(hi.invoked) : hi.invoked[i].kind # "listener")
  /\ [][GlobalApiStep =>
          /\ scope'[1] = sc
          /\ hist'[1].api.threw = ModulesTypeError]_vars

\* A script's addEventListener call was refused, and a later dispatch invoked
\* the exported handler and ended.
C11_Witness ==
  /\ hi.api = [op |-> "addEventListener", threw |-> ModulesTypeError]
  /\ hi.invoked # <<>>
  /\ hi.invoked[1].kind = "moduleFetch"
  /\ cl.pc = "done"

\* The listeners registered for scheduled events, and the fan-out being over.
Scheduled == sc.listeners["scheduled"]
FanOutOver == ev.type = "scheduled" /\ cl.pc \in {"await_tasks", "done"}

\* C12 as stated: on every dispatchScheduled every listener registered for
\* scheduled events is invoked, in registration order, whatever an earlier
\* listener did.
C12_AsStated ==
  FanOutOver => hi.invoked = Scheduled

\* C12 amended: on a dispatchScheduled the listeners registered for scheduled
\* events are invoked once each in registration order, all of them unless one
\* throws or calls the event's stopImmediatePropagation; the listeners after
\* that one are not invoked.
C12_ScheduledFanOut ==
  ev.type = "scheduled" =>
    /\ \E k \in 0..Len(Scheduled) : hi.invoked = SubSeq(Scheduled, 1, k)
    /\ (FanOutOver /\ hi.thrown = <<>> /\ hi.stopped = 0) =>
         hi.invoked = Scheduled
    /\ (FanOutOver /\ hi.thrown # <<>>) =>
         hi.invoked = SubSeq(Scheduled, 1, hi.thrownAt)
    /\ (FanOutOver /\ hi.thrown = <<>> /\ hi.stopped # 0) =>
         hi.invoked = SubSeq(Scheduled, 1, hi.stopped)

\* Three listeners, registered in another order than they were made, were
\* all invoked; the first two queued a task each.
C12_Witness ==
  /\ FanOutOver
  /\ Len(Scheduled) = 3
  /\ Scheduled[1].of = 2
  /\ hi.invoked = Scheduled
  /\ Len(hi.made) = 2

\* C13 as stated: dispatchScheduled resolves once every task queued through
\* waitUntil on its event has settled, with the results of those tasks in the
\* order of the waitUntil calls.
C13_AsStated ==
  (cl.pc = "done" /\ cl.outcome.kind = "resolved") =>
    LET queued == SelectSeq(hi.made, LAMBDA m : ~m.responded) IN
    cl.outcome.results =
      [i \in 1..Len(queued) |-> <<"result", queued[i].promise>>]

\* C13 amended: dispatchScheduled waits for the promises passed to waitUntil
\* during the fan-out, and for no promise passed later; it resolves only once
\* each of them has fulfilled, with their results in the order of the
\* waitUntil calls, and it rejects when one of them has rejected.
C13_ScheduledResults ==
  /\ (ev.type = "scheduled" /\ cl.pc = "await_tasks") =>
       cl.waitUntil = EnqueuedInWindow
  /\ (ev.type = "scheduled" /\ cl.pc = "done" /\ cl.outcome.kind = "resolved") =>
       /\ cl.outcome.results =
            [i \in 1..Len(EnqueuedInWindow) |-> <<"result", EnqueuedInWindow[i]>>]
       /\ \A i \in 1..Len(EnqueuedInWindow) :
            en.tasks[EnqueuedInWindow[i]] = "fulfilled"
  /\ (/\ ev.type = "scheduled" /\ cl.pc = "done"
      /\ cl.outcome.kind = "rejected" /\ hi.thrown = <<>>) =>
       \E i \in 1..Len(EnqueuedInWindow) :
         en.tasks[EnqueuedInWindow[i]] = "rejected"

\* dispatchScheduled resolved with the result of the one task queued during
\* the fan-out; a second task, queued before it resolved, is not waited for.
C13_Witness ==
  /\ cl.pc = "done"
  /\ cl.outcome.kind = "resolved"
  /\ cl.outcome.results = << <<"result", 1>> >>
  /\ Len(hi.made) = 2
  /\ ~hi.made[2].open /\ ~hi.made[2].responded
  /\ en.tasks[2] = "pending"

\* C14: the ScheduledEvent given to the listeners carries the timestamp and
\* the cron string dispatchScheduled was called with, 0 and "" included; an
\* omitted timestamp is the value of Date.now() at the call and an omitted
\* cron is the empty string.
C14_ScheduledEventFields ==
  ev.type = "scheduled" =>
    /\ ev.scheduledTime = IF hi.args.scheduledTime.given
                            THEN hi.args.scheduledTime.value
                            ELSE hi.args.now
    /\ ev.cron = IF hi.args.cron.given THEN hi.args.cron.value ELSE ""

\* A listener is running on the event of dispatchScheduled(0), cron omitted.
C14_Witness ==
  /\ cl.pc = "listener"
  /\ hi.args.scheduledTime = Given(0)
  /\ hi.args.cron = Omitted("")
  /\ ev.scheduledTime = 0
  /\ ev.cron = ""

\* C15: whenever dispatchFetch has settled - with a listener's response, with
\* the forwarder's response or rejection, with a rethrown error or with the
\* unhandled-request error - the event's kSent flag is set; and a flag that is
\* set stays set.
C15_WindowClosesOnEveryExit ==
  /\ []((ev.type = "fetch" /\ cl.pc = "done") => ev.kSent)
  /\ [][(ev.type = "fetch" /\ ev.kSent) => event'[1].kSent]_vars

\* dispatchFetch rejected with the error a listener threw, and the flag is set.
C15_Witness ==
  /\ cl.pc = "done"
  /\ hi.thrown # <<>>
  /\ cl.outcome = Rejected("ErrorE1")
  /\ ev.kSent

\* C16 as stated: the first listener to throw ends the fan-out, and after the
\* fan-out the dispatch throws the value it threw to its caller, whatever the
\* value: dispatchScheduled rejects with it, and dispatchFetch rejects with it
\* or, under pass-through, logs it.
C16_AsStated ==
  (hi.thrown # <<>> /\ cl.pc \notin {"idle", "listener"}) =>
    /\ Len(hi.invoked) = hi.thrownAt
    /\ IF hi.thrown[1].passThrough
         THEN en.log = <<hi.thrown[1].value>>
         ELSE cl.pc = "done" /\ cl.outcome = Rejected(hi.thrown[1].value)

\* C17 as stated: a dispatch gives its caller a listener's error only if a
\* listener invoked for its own event threw it during its own fan-out.
C17_AsStated ==
  (cl.pc = "done" /\ cl.outcome.kind = "rejected"
     /\ cl.outcome.value \in Errors) =>
    /\ hi.thrown # <<>>
    /\ hi.thrown[1].value = cl.outcome.value

\* The listeners behind the shims of a list.
Of(shims) == [i \in 1..Len(shims) |-> shims[i].of]

SomeTask(promises, state) ==
  \E i \in 1..Len(promises) : en.tasks[promises[i]] = state

\* C19: the aggregate of the tasks attached to a dispatchFetch outcome is
\* rejected from the moment one of them has rejected, whatever the state of
\* the others, and fulfilled only when all of them have fulfilled; a
\* dispatchScheduled call that awaits its tasks rejects once one of them has
\* rejected, though the others never settle, and resolves only when all have
\* fulfilled.  No step but a task's own settling changes the state of a task,
\* and a task still pending can settle after the aggregate has rejected.
C19_AggregationFailsFast ==
  /\ [](cl.outcome.kind = "resolved" /\ ev.type = "fetch" =>
          /\ BackgroundFuture.state = "rejected"
               <=> SomeTask(cl.outcome.waitUntil, "rejected")
          /\ BackgroundFuture.state = "fulfilled"
               <=> ~SomeTask(cl.outcome.waitUntil, "rejected")
                   /\ ~SomeTask(cl.outcome.waitUntil, "pending"))
  /\ [](ev.type = "scheduled" /\ cl.pc = "done" =>
          /\ cl.outcome.kind = "rejected"
               => SomeTask(cl.waitUntil, "rejected")
          /\ cl.outcome.kind = "resolved"
               => /\ ~SomeTask(cl.waitUntil, "rejected")
                  /\ ~SomeTask(cl.waitUntil, "pending"))
  /\ (/\ ev.type = "scheduled" /\ cl.pc = "await_tasks"
      /\ SomeTask(cl.waitUntil, "rejected"))
       ~> (cl.pc = "done" /\ cl.outcome.kind = "rejected")
  /\ [][\A t \in Tasks :
          /\ en.tasks[t] # "pending" => env'[1].tasks[t] = en.tasks[t]
          /\ en.tasks[t] # env'[1].tasks[t] => call' = call]_vars
  /\ [](\A t \in 1..Len(hi.made) :
          en.tasks[t] = "pending" => ENABLED TaskSettles(t, "fulfilled"))

\* dispatchScheduled has rejected because the first of its two tasks
\* rejected, while the second is still pending.
C19_Witness ==
  /\ ev.type = "scheduled"
  /\ cl.pc = "done"
  /\ cl.outcome.kind = "rejected"
  /\ cl.waitUntil = <<1, 2>>
  /\ en.tasks[1] = "rejected"
  /\ en.tasks[2] = "pending"

\* The other of the two calls.
Other(r) == 3 - r

\* C20: of two dispatchFetch calls on one scope that overlap at their await
\* points, a step of one, a call of respondWith, waitUntil or
\* passThroughOnException on its event included, leaves the other's event,
\* locals, promises and warnings as they were.  An error of a call is logged
\* only if passThroughOnException was called on the event of that call, and a
\* listener's error thrown when it had not been called rejects that call with
\* that error, whatever was called on the other event.  A call that resolves
\* resolves with the response stored on its own event and the tasks queued on
\* its own event, and a call that rejects with a listener's error rejects
\* with an error thrown for its own event.
C20_DispatchStateIsPerEvent ==
  /\ [][\A r \in Runs :
          (event'[r] # event[r] \/ call'[r] # call[r] \/ env'[r] # env[r]) =>
             /\ event'[Other(r)] = event[Other(r)]
             /\ call'[Other(r)] = call[Other(r)]
             /\ env'[Other(r)] = env[Other(r)]]_vars
  /\ [](\A r \in Runs :
          /\ env[r].log # <<>> =>
               /\ event[r].kPassThrough
               /\ call[r].outcome.kind = "rejected" =>
                    call[r].outcome.value = UnhandledRequest
          /\ (/\ hist[r].thrown # <<>>
              /\ hist[r].thrown[1].value \in ErrorObjects
              /\ ~hist[r].thrown[1].passThrough) =>
               /\ call[r].pc = "done"
               /\ call[r].outcome = Rejected(hist[r].thrown[1].value)
               /\ env[r].log = <<>>
          /\ call[r].outcome.kind = "resolved" =>
               /\ event[r].kResponse.set
               /\ call[r].outcome.value =
                    IF event[r].kResponse.of = PendingResponse
                      THEN LateResponse ELSE event[r].kResponse.of
               /\ call[r].outcome.waitUntil =
                    SubSeq(event[r].kWaitUntil, 1, Len(call[r].outcome.waitUntil))
          /\ (call[r].outcome.kind = "rejected"
                /\ call[r].outcome.value \in Errors) =>
               \E i \in 1..Len(hist[r].thrown) :
                 hist[r].thrown[i].value = call[r].outcome.value)

\* The first call asked for pass-through and awaits the response its listener
\* promised; meanwhile the second call, whose listener threw E2 without
\* asking, has rejected with E2 and logged nothing.
C20_Witness ==
  /\ call[1].pc = "await_response"
  /\ event[1].kPassThrough
  /\ event[1].kResponse.of = PendingResponse
  /\ call[2].pc = "done"
  /\ ~event[2].kPassThrough
  /\ call[2].outcome = Rejected("ErrorE2")
  /\ env[2].log = <<>>

\* The last element of a sequence that has one.
Last(seq) == seq[Len(seq)]

\* C21: a scope given exported handlers and a scope given the imperative
\* listeners that make the same calls on the event have, after every step,
\* the same event, the same dispatch state and the same promises, warnings
\* and forwarded requests, and have thrown, accepted and invoked the same.
\* The fetch handler is given the event's request, and what it returns is
\* passed to respondWith once: the accepted respondWith calls are those of
\* the handlers that returned, with what they returned.  A scheduled handler
\* is given the event's time and cron, and the promise for what it returns is
\* queued at the end of the event's tasks when it returns, so that a
\* dispatchScheduled that resolves has the result of the last handler's
\* return value as the last of its results.
C21_ExportedHandlerEquivalence ==
  /\ [](/\ event[1] = event[2]
        /\ call[1] = call[2]
        /\ env[1] = env[2]
        /\ hist[1].thrown = hist[2].thrown
        /\ hist[1].accepted = hist[2].accepted
        /\ hist[1].made = hist[2].made
        /\ Of(hist[1].invoked) = Of(hist[2].invoked))
  /\ [](ev.type = "fetch" =>
          /\ hi.accepted =
               [i \in 1..Len(hi.handled) |->
                  [arg |-> hi.handled[i].res, by |-> hi.handled[i].by]]
          /\ hi.last.threw = NoThrow
          /\ \A i \in 1..Len(hi.handled) : hi.handled[i].request = ev.request)
  /\ [](ev.type = "scheduled" =>
          /\ \A i \in 1..Len(hi.handled) :
               hi.handled[i].controller =
                 [cron |-> ev.cron, scheduledTime |-> ev.scheduledTime]
          /\ (cl.pc = "done" /\ cl.outcome.kind = "resolved"
                /\ hi.handled # <<>>) =>
               Last(cl.outcome.results) = <<"result", Last(hi.handled).promise>>)
  /\ [][(ev.type = "scheduled" /\ hist'[1].handled # hi.handled) =>
          event'[1].kWaitUntil =
            Append(ev.kWaitUntil, Last(hist'[1].handled).promise)]_vars

\* The exported scheduled handler called waitUntil and returned a plain
\* value; dispatchScheduled resolved with the task's result and then the
\* return value's, on the scope in modules mode and on the imperative one.
C21_Witness ==
  /\ sc.modules /\ ~scope[2].modules
  /\ ev.type = "scheduled"
  /\ Len(hi.handled) = 1
  /\ hi.handled[1].promise = 2
  /\ hi.invoked[1].kind = "moduleScheduled"
  /\ hist[2].invoked[1].kind = "listener"
  /\ cl.pc = "done"
  /\ cl.outcome.kind = "resolved"
  /\ cl.outcome.results = << <<"result", 1>>, <<"result", 2>> >>
  /\ call[2].outcome = cl.outcome

\* C22 as stated: when a respondWith(R) call has returned without error, in
\* a listener or in a continuation of listener code, no listener has thrown
\* and R has resolved, dispatchFetch resolves with R, forwards nothing and
\* does not reject as unhandled.
C22_AsStated ==
  (/\ cl.pc = "done"
   /\ hi.accepted # <<>>
   /\ hi.accepted[1].arg # Undefined
   /\ hi.thrown = <<>>
   /\ hi.accepted[1].arg = PendingResponse => en.respP = "fulfilled") =>
    /\ cl.outcome.kind = "resolved"
    /\ cl.outcome.value = IF hi.accepted[1].arg = PendingResponse
                            THEN LateResponse ELSE hi.accepted[1].arg
    /\ en.fetched = <<>>

\* The last put was given this option as an integer.
Supplied(option) == option.type # "undefined"

\* C23 as stated: no entry is stored with an expiration less than 60 seconds
\* after the clock's seconds at the put; a put given an integer expirationTtl
\* either stored the entry with the clock's seconds plus the ttl, the ttl
\* being at least 60, or failed with the 400 error and wrote nothing; a put
\* given an integer expiration and no expirationTtl either stored the entry
\* with that expiration, at least 60 seconds ahead, or failed with the 400
\* error and wrote nothing.
C23_AsStated ==
  /\ \A key \in 1..KVKeys :
       (kv.storage[key].stored /\ kv.storage[key].expiration.defined) =>
          kv.storage[key].expiration.n >= kv.storage[key].at + MIN_CACHE_TTL
  /\ (kv.last.result # "none" /\ kv.last.size = "fits"
        /\ Supplied(kv.last.expirationTtl)) =>
       \/ /\ kv.last.expirationTtl.n >= MIN_CACHE_TTL
          /\ kv.last.result = "stored"
          /\ kv.storage[kv.last.key].expiration.n =
               kv.last.now + kv.last.expirationTtl.n
       \/ kv.last.result = KVPut400 /\ ~kv.last.wrote
  /\ (kv.last.result # "none" /\ kv.last.size = "fits"
        /\ ~Supplied(kv.last.expirationTtl) /\ Supplied(kv.last.expiration)) =>
       \/ /\ kv.last.expiration.n >= kv.last.now + MIN_CACHE_TTL
          /\ kv.last.result = "stored"
          /\ kv.storage[kv.last.key].expiration.n = kv.last.expiration.n
       \/ kv.last.result = KVPut400 /\ ~kv.last.wrote

====
